---- MODULE Spec2Model ----
(***************************************************************************)
(* The OAuth2 token lifecycle of qbo-mcp.                                   *)
(*                                                                         *)
(* Several deployments of the grant live in the repository and a           *)
(* process runs one of them:                                               *)
(*   variant = "auth" : src/qbo_mcp/auth.py, AutoQBOAuthenticator with its *)
(*                      QBOTokenManager and CallbackHandler;               *)
(*   variant = "rio"  : src/qbo_mcp/oauth_flow.py, run_interactive_oauth   *)
(*                      with its OAuthHandler;                             *)
(*   variant = "conn" : src/qbo_mcp/utils/auth.py (run_auth_flow and the   *)
(*                      token file helpers) with the qbo_connection of     *)
(*                      src/qbo_mcp/services/qbo_client.py;                *)
(*   variant = "svc"  : src/qbo_mcp/services/qbo.py, qbo_connection with   *)
(*                      its own token file helpers.                        *)
(* The main thread, the listener thread (do_GET), the clock, the token     *)
(* endpoint and the file system are interleaved; what the endpoint, the    *)
(* browser and the file system answer is chosen with \E.                   *)
(***************************************************************************)
EXTENDS Integers, Sequences, FiniteSets, TLC

\* ---------------------------------------------------------------- bounds
\* The clock counts ticks up to MaxClock and then stays (the end of the
\* observation window); the listener handles at most MaxHits requests per call.
MaxClock == 2
MaxHits == 2
\* A process makes at most MaxCalls calls of the public methods.
MaxCalls == 2
\* x_refresh_token_expires_in as the provider answers it, in ticks, and
\* expires_in, the lifetime of the access token it issues.
RefreshLife == 2
AccessLife == 1
\* The process is restarted at most MaxBoots times.
MaxBoots == 1
\* The wait loop's timeout (auth.py:205, 300 s) in ticks of the wait, and the
\* default expires_in (auth.py:243 and 270, 3600 s) in ticks of the clock.
TimeoutTicks == 1
DefaultExpiresInTicks == 1

\* ---------------------------------------------------------------- values
NoneV == "None"
Empty == ""
Raise == "raise"

Truthy(v) == v \notin {NoneV, Empty}

\* expires_at as json.load yields it: the key absent, a value that is no
\* string (null, a number), a string fromisoformat rejects, or a timestamp.
ExpAbsent == [kind |-> "absent", at |-> 0]
ExpNotStr == [kind |-> "not_str", at |-> 0]
ExpBadStr == [kind |-> "bad_str", at |-> 0]
ExpAt(t) == [kind |-> "time", at |-> t]

EmptyDict ==
    [access_token |-> NoneV, refresh_token |-> NoneV, company_id |-> NoneV,
     expires_at |-> ExpAbsent]

\* The dicts a token file can hold when the process starts.
StoredDicts ==
    [access_token : {NoneV, "a0"},
     refresh_token : {NoneV, "r0"},
     company_id : {NoneV, Empty, "c0"},
     expires_at : {ExpAbsent, ExpNotStr, ExpBadStr, ExpAt(0), ExpAt(1)}]

FileMissing == [state |-> "missing", data |-> EmptyDict]
FileCorrupt == [state |-> "corrupt", data |-> EmptyDict]
FileOf(d) == [state |-> "ok", data |-> d]

Configs == [client_id : {Empty, "cid"}, client_secret : {Empty, "sec"},
            environment : {"sandbox"}]

\* QBO_ENVIRONMENT as an operator may set it between two runs.
Environments == {"sandbox", "production"}

\* Requests the browser (or anything else on localhost) sends the listener.
NoRequest == [path |-> "none", code |-> NoneV, realmId |-> NoneV, error |-> NoneV]
ReqOk == [path |-> "/callback", code |-> "abc123", realmId |-> "999", error |-> NoneV]
ReqDenied == [path |-> "/callback", code |-> NoneV, realmId |-> NoneV, error |-> "access_denied"]
ReqNoCode == [path |-> "/callback", code |-> NoneV, realmId |-> "999", error |-> NoneV]
ReqNoRealm == [path |-> "/callback", code |-> "abc123", realmId |-> NoneV, error |-> NoneV]
ReqOther == [path |-> "/favicon.ico", code |-> NoneV, realmId |-> NoneV, error |-> NoneV]
ReqOk2 == [path |-> "/callback", code |-> "xyz789", realmId |-> "111", error |-> NoneV]
Requests == {ReqOk, ReqOk2, ReqDenied, ReqNoCode, ReqNoRealm, ReqOther}

\* What the token endpoint answers to a successful exchange or refresh.
IssuedAccessTokens == {"a1"}
IssuedRefreshTokens == {"r0", "r1"}
Grants == [access_token : IssuedAccessTokens, refresh_token : IssuedRefreshTokens,
           expires_in : {AccessLife},
           x_refresh_token_expires_in : {0, RefreshLife}]

\* What the provider knows about the tokens it issued last: until when the
\* access token is valid and the environment they belong to.
NothingIssued == [valid_until |-> 0, environment |-> NoneV]
issue(g, c, n) == [valid_until |-> n + g.expires_in, environment |-> c.environment]

NoAuthClient ==
    [exists |-> FALSE, access_token |-> NoneV, refresh_token |-> NoneV,
     x_refresh_token_expires_in |-> 0]
NoClient ==
    [built |-> FALSE, access_token |-> NoneV, company_id |-> NoneV,
     environment |-> NoneV]
NoGrant == [code |-> NoneV, realm_id |-> NoneV, error |-> NoneV]
ZeroCalls ==
    [refresh |-> 0, flow |-> 0, bind |-> 0, browser |-> 0, exchange |-> 0,
     revoke |-> 0]

\* A date as a tool receives it: not given (None), or a text.
NoDate == [given |-> FALSE, text |-> <<>>]
DateText(s) == [given |-> TRUE, text |-> s]
IsoDate == DateText(<<"2", "0", "2", "3", "-", "0", "1", "-", "3", "1">>)
EscapedDate ==
    DateText(<<"\\", "d", "d", "d", "d", "-", "\\", "d", "d", "-", "\\", "d", "d">>)
DateInputs == {NoDate, IsoDate, EscapedDate}

\* The requests of the two report tools modelled: a period (both dates given
\* or none) for Profit & Loss, an as-of date for the Balance Sheet.
ReportRequests ==
    [tool : {"profit_loss"}, start_date : DateInputs \ {NoDate},
     end_date : DateInputs \ {NoDate}]
    \cup {[tool |-> "profit_loss", start_date |-> NoDate, end_date |-> NoDate]}
    \cup [tool : {"balance_sheet"}, start_date : DateInputs, end_date : {NoDate}]
NoRequestYet == [tool |-> "none", start_date |-> NoDate, end_date |-> NoDate]

\* No parsed date: the place of a date a call of the generator does not take.
NoDay == [y |-> 0, m |-> 0, d |-> 0]

\* No report tool has been invoked: layer is the module of the tool
\* (tools.py or server.py), guards and ensures count the calls of the guard
\* and of ensure_authenticated by the guard, ensured is what
\* ensure_authenticated returned to the guard, generated the calls of the
\* reports generator, status and data the result of the tool.
NoReport ==
    [layer |-> "none", request |-> NoRequestYet, guards |-> 0, ensures |-> 0,
     ensured |-> "none", generated |-> <<>>, status |-> "none",
     data |-> NoneV]

VARIABLES
    variant,       \* which deployment this process runs
    config,        \* config.client_id, client_secret, environment
    file,          \* the token file
    now,           \* datetime.now(), in ticks
    \* ---- auth.py
    tokens,        \* QBOTokenManager._tokens
    auth_client,   \* AutoQBOAuthenticator._auth_client
    server,        \* AutoQBOAuthenticator._server
    callback_url,  \* CallbackHandler.callback_url
    pc,            \* where the calling thread is
    pc2,           \* where a second caller, overlapping the first, is
    report,        \* the report tool invoked last: request, guard, result
    op,            \* the public method it runs: ensure / client / clear /
                   \* info / revoke, or tool / generate inside a report tool
    local,         \* auth_code and company_id of _perform_oauth_flow
    ret,           \* what ensure_authenticated returned
    qb_client,     \* what get_authenticated_client returned
    \* ---- oauth_flow.py
    rio_pc,        \* where run_interactive_oauth is
    handler,       \* OAuthHandler.code, realm_id, error
    handler_req,   \* the request do_GET is in the middle of
    rio_ret,       \* how run_interactive_oauth ended
    \* ---- the listener and the clock of the wait loop
    serving,       \* serve_forever is running
    sock,          \* the listening socket is open (the port is taken)
    waited,        \* time.time() - start_time of the wait loop
    \* ---- history
    hits,          \* requests the listener handled during this call
    calls,         \* what this call did: refreshes, flows, binds, ...
    faults,        \* what the environment refused during this call
    start,         \* the record and get_access_token() at the call's entry
    sent,          \* the refresh token the last refresh posted, and its answer
    ncalls,        \* calls of the public methods so far
    issued,        \* the provider's side of the last grant or refresh
    boots          \* restarts of the process so far

authVars == <<tokens, auth_client, server, callback_url, pc, op, local, ret, qb_client>>
rioVars == <<rio_pc, handler, handler_req, rio_ret>>
netVars == <<serving, sock, waited>>
histVars == <<hits, calls, faults, start, sent, ncalls, issued, boots>>
vars ==
    <<variant, config, file, now, authVars, pc2, report, rioVars, netVars,
      histVars>>

\* ------------------------------------------------- QBOTokenManager (auth.py)

\* _load_tokens: the parsed file, or {} when it is missing or unreadable.
load_tokens(f) == IF f.state = "ok" THEN f.data ELSE EmptyDict

\* _save_tokens: the file after the write; a failed write is logged only.
save_tokens(f, t, ok) == IF ok THEN FileOf(t) ELSE f

\* get_access_token with its expiry test the wrong way round.
get_access_token_flipped(t, n) ==
    IF t = EmptyDict THEN NoneV
    ELSE IF t.expires_at.kind = "not_str" THEN Raise
    ELSE IF t.expires_at.kind # "time" THEN NoneV
    ELSE IF n <= t.expires_at.at THEN NoneV
    ELSE t.access_token

\* get_access_token at time n: None, the token, or the TypeError that
\* fromisoformat raises for a value that is no string ("except ValueError"
\* does not catch it).
get_access_token(t, n) ==
    IF t = EmptyDict THEN NoneV
    ELSE IF t.expires_at.kind = "not_str" THEN Raise
    ELSE IF t.expires_at.kind # "time" THEN NoneV
    ELSE IF n >= t.expires_at.at THEN NoneV
    ELSE t.access_token

\* get_refresh_token (auth.py 115-117) reading the wrong key.
get_refresh_token_wrong_key(t) == t.access_token

\* QBOTokenManager.get_refresh_token: self._tokens.get("refresh_token").
get_refresh_token(t) == t.refresh_token

\* is_authenticated: "true", "false", or the exception of get_access_token.
is_authenticated(t, n) ==
    LET a == get_access_token(t, n) IN
    IF a = Raise THEN Raise
    ELSE IF a # NoneV /\ t.company_id # NoneV THEN "true"
    ELSE "false"

\* "auth_client.x_refresh_token_expires_in or 3600"
expires_in_of(x) == IF x # 0 THEN x ELSE DefaultExpiresInTicks

\* store_tokens: the new in-memory dict.
store_tokens(access_token, refresh_token, company_id, expires_in, n) ==
    [access_token |-> access_token, refresh_token |-> refresh_token,
     company_id |-> company_id, expires_at |-> ExpAt(n + expires_in)]

\* config.is_configured
is_configured(c) == Truthy(c.client_id) /\ Truthy(c.client_secret)

\* _get_auth_client: the cached client, or a new one built from the record.
get_auth_client(ac, t, n) ==
    IF ac.exists THEN ac
    ELSE [exists |-> TRUE, access_token |-> get_access_token(t, n),
          refresh_token |-> t.refresh_token, x_refresh_token_expires_in |-> 0]

\* The client after the endpoint answered g to an exchange or a refresh.
granted(ac, g) ==
    [exists |-> TRUE, access_token |-> g.access_token,
     refresh_token |-> g.refresh_token,
     x_refresh_token_expires_in |-> g.x_refresh_token_expires_in]

\* _refresh_tokens storing no company id.
refreshed_record_no_realm(t, ac, n) ==
    [access_token |-> ac.access_token, refresh_token |-> ac.refresh_token,
     company_id |-> NoneV,
     expires_at |-> ExpAt(n + expires_in_of(ac.x_refresh_token_expires_in))]

\* _refresh_tokens keeping the refresh token it sent.
refreshed_record_stale(t, ac, n) ==
    [access_token |-> ac.access_token, refresh_token |-> t.refresh_token,
     company_id |-> t.company_id,
     expires_at |-> ExpAt(n + expires_in_of(ac.x_refresh_token_expires_in))]

\* The record _refresh_tokens stores from the refreshed client ac.
refreshed_record(t, ac, n) ==
    store_tokens(ac.access_token, ac.refresh_token, t.company_id,
                 expires_in_of(ac.x_refresh_token_expires_in), n)

\* The record _perform_oauth_flow stores after the exchange.
exchanged_record(ac, company_id, n) ==
    store_tokens(ac.access_token, ac.refresh_token, company_id,
                 expires_in_of(ac.x_refresh_token_expires_in), n)

\* A record is usable: access token present and unexpired, realm id present.
Usable(t, n) ==
    /\ t.expires_at.kind = "time" /\ n < t.expires_at.at
    /\ Truthy(t.access_token) /\ Truthy(t.company_id)

\* ------------------------------------------- AutoQBOAuthenticator (auth.py)

\* The files a process can find when it starts.
Files == {FileMissing, FileCorrupt} \cup {FileOf(d) : d \in StoredDicts}

\* The files the deployments of qbo_connection are started with.
ConnFiles ==
    {FileMissing, FileCorrupt} \cup
    {FileOf(d) : d \in {x \in StoredDicts :
                          x.company_id = "c0" /\ x.expires_at = ExpAt(0)}}

\* The state after import: config = QBOConfig(), authenticator =
\* AutoQBOAuthenticator(), with the configuration and the file drawn from
\* cfgs and files.
InitWith(cfgs, files) ==
    /\ variant \in {"auth", "rio", "conn", "svc"}
    /\ config \in cfgs
    /\ file \in files
    /\ variant = "rio" => (file = FileMissing /\ is_configured(config))
    /\ variant \in {"conn", "svc"} => file \in ConnFiles
    /\ now = 0
    /\ tokens = IF variant = "auth" THEN load_tokens(file) ELSE EmptyDict
    /\ auth_client = NoAuthClient
    /\ server = NoneV
    /\ callback_url = NoRequest
    /\ pc = "idle" /\ pc2 = "idle" /\ op = "none" /\ local = NoGrant
    /\ report = NoReport
    /\ ret = "none" /\ qb_client = NoClient
    /\ rio_pc = "idle" /\ handler = NoGrant /\ handler_req = NoRequest
    /\ rio_ret = "none"
    /\ serving = FALSE /\ sock = FALSE /\ waited = 0
    /\ hits = <<>> /\ calls = ZeroCalls /\ faults = {}
    /\ start = [tokens |-> tokens, access |-> NoneV]
    /\ sent = [token |-> NoneV, returned |-> NoneV]
    /\ ncalls = 0
    /\ issued = NothingIssued
    /\ boots = 0

Init == InitWith(Configs, Files)

\* ensure_authenticated returns r: to the tool (op "ensure"), or to
\* get_authenticated_client, which goes on to build the client when r is True
\* and returns None when it is False. Inside a report tool it returns to the
\* guard (op "tool") or to the get_authenticated_client of the reports
\* generator (op "generate").
Finish(o, r) ==
    /\ ret' = r
    /\ qb_client' = NoClient
    /\ pc' = IF o \in {"client", "generate"} /\ r = "true" THEN "build"
             ELSE IF o = "tool" THEN "guarded"
             ELSE IF o = "generate" THEN "generated"
             ELSE "idle"

\* _stop_callback_server, and so the "finally" of _perform_oauth_flow.
stop_callback_server ==
    /\ serving' = IF server # NoneV THEN FALSE ELSE serving
    /\ sock' = IF server # NoneV THEN FALSE ELSE sock

\* _perform_oauth_flow returns r through its "finally".
FlowReturn(r) ==
    /\ stop_callback_server
    /\ Finish(op, r)

\* ensure_authenticated going to the interactive flow without trying the
\* refresh token.
after_unusable_flow_first(t) == "flow"

\* lines 287-295: with no usable record the refresh token is tried when one
\* is held, the interactive flow is started otherwise.
after_unusable(t) == IF Truthy(get_refresh_token(t)) THEN "refresh" ELSE "flow"

\* A caller enters ensure_authenticated (o = "ensure") or
\* get_authenticated_client (o = "client"): lines 283-295 up to the first
\* call that leaves the process.
EnterAt(o, at) ==
    /\ variant = "auth" /\ pc = at
    /\ ncalls < MaxCalls
    /\ ncalls' = ncalls + 1
    /\ op' = o
    /\ start' = [tokens |-> tokens, access |-> get_access_token(tokens, now)]
    /\ hits' = <<>> /\ faults' = {} /\ calls' = ZeroCalls /\ local' = NoGrant
    /\ LET auth == is_authenticated(tokens, now) IN
       IF auth \in {Raise, "true"}
       THEN Finish(o, auth)
       ELSE /\ ret' = "none" /\ qb_client' = NoClient
            /\ pc' = after_unusable(tokens)
    /\ UNCHANGED <<variant, pc2, config, file, now, tokens, auth_client, server,
                   callback_url, sent, rioVars, netVars, issued, boots>>

Enter(o) == EnterAt(o, "idle") /\ UNCHANGED report

ensure_authenticated == Enter("ensure")

get_authenticated_client == Enter("client")

\* ensure_authenticated trying the refresh again after it failed.
after_failed_refresh_retry == "refresh"

\* lines 290-295: a failed refresh falls through to _perform_oauth_flow.
after_failed_refresh == "flow"

\* _refresh_tokens dropping the record when the refresh is refused.
refresh_failed_record_cleared(t) == EmptyDict

\* lines 275-277: "except Exception" logs and returns False; the record is
\* the one the call found.
refresh_failed_record(t) == t

\* _refresh_tokens: auth_client.refresh() and what follows its answer.
refresh_tokens ==
    /\ variant = "auth" /\ pc = "refresh"
    /\ calls' = [calls EXCEPT !.refresh = @ + 1]
    /\ LET ac == get_auth_client(auth_client, tokens, now) IN
       \/ \E g \in Grants, ok \in BOOLEAN :
            \* the endpoint authenticates the client by its id and secret
            /\ is_configured(config)
            /\ auth_client' = granted(ac, g)
            /\ tokens' = refreshed_record(tokens, auth_client', now)
            /\ file' = save_tokens(file, tokens', ok)
            /\ faults' = IF ok THEN faults ELSE faults \cup {"save"}
            /\ sent' = [token |-> ac.refresh_token, returned |-> g.refresh_token]
            /\ issued' = [issued EXCEPT !.valid_until = now + g.expires_in]
            /\ Finish(op, "true")
       \/ /\ auth_client' = ac
          /\ faults' = faults \cup {"refresh"}
          /\ sent' = [token |-> ac.refresh_token, returned |-> NoneV]
          /\ pc' = after_failed_refresh
          /\ tokens' = refresh_failed_record(tokens)
          /\ UNCHANGED <<file, ret, qb_client, issued>>
    /\ UNCHANGED <<variant, report, pc2, config, now, server, callback_url, op, local,
                   rioVars, netVars, hits, start, ncalls, boots>>

\* _start_callback_server binding the port without starting the thread.
started_server_without_thread == [serving |-> FALSE, sock |-> TRUE]

\* _start_callback_server, lines 162-165: HTTPServer() binds the port and
\* listens, and the thread running serve_forever is started.
started_server == [serving |-> TRUE, sock |-> TRUE]

\* _start_callback_server logging the bind error and returning.
bind_error_swallowed == FALSE

\* _start_callback_server, lines 167-169: the bind error is logged and
\* raised again, into the "except Exception" of _perform_oauth_flow.
bind_error_raised == TRUE

\* _perform_oauth_flow, lines 182-188: the configuration check and the bind
\* of the listener (_start_callback_server).
start_callback_server ==
    /\ variant = "auth" /\ pc = "flow"
    /\ IF ~is_configured(config)
       THEN /\ calls' = [calls EXCEPT !.flow = @ + 1]
            /\ faults' = faults \cup {"unconfigured"}
            /\ FlowReturn("false")
            /\ UNCHANGED <<server, waited>>
       ELSE /\ calls' = [calls EXCEPT !.flow = @ + 1, !.bind = @ + 1]
            /\ \/ /\ ~sock
                  /\ server' = "httpd"
                  /\ serving' = started_server.serving
                  /\ sock' = started_server.sock
                  /\ pc' = "flow_url"
                  /\ UNCHANGED <<faults, ret, qb_client, waited>>
               \/ /\ faults' = faults \cup {"bind"}
                  /\ IF bind_error_raised
                     THEN /\ FlowReturn("false")
                          /\ UNCHANGED <<server, waited>>
                     ELSE /\ pc' = "flow_url"
                          /\ UNCHANGED <<server, serving, sock, ret, qb_client,
                                         waited>>
    /\ UNCHANGED <<variant, report, pc2, config, file, now, tokens, auth_client,
                   callback_url, op, local, rioVars, hits, start, sent, ncalls, issued, boots>>

\* lines 190-193: the client and its authorization URL.
get_authorization_url ==
    /\ variant = "auth" /\ pc = "flow_url"
    /\ auth_client' = get_auth_client(auth_client, tokens, now)
    /\ \/ /\ pc' = "flow_browser"
          /\ UNCHANGED <<faults, ret, qb_client, netVars>>
       \/ /\ faults' = faults \cup {"url"}
          /\ FlowReturn("false")
          /\ UNCHANGED waited
    /\ UNCHANGED <<variant, report, pc2, config, file, now, tokens, server, callback_url,
                   op, local, rioVars, hits, calls, start, sent, ncalls, issued, boots>>

\* line 201: webbrowser.open.
open_browser ==
    /\ variant = "auth" /\ pc = "flow_browser"
    /\ calls' = [calls EXCEPT !.browser = @ + 1]
    /\ \/ /\ pc' = "flow_reset"
          /\ UNCHANGED <<faults, ret, qb_client, netVars>>
       \/ /\ faults' = faults \cup {"browser"}
          /\ FlowReturn("false")
          /\ UNCHANGED waited
    /\ UNCHANGED <<variant, report, pc2, config, file, now, tokens, auth_client, server,
                   callback_url, op, local, rioVars, hits, start, sent, ncalls, issued, boots>>

\* The wait beginning with whatever the slot holds.
cleared_callback_kept(u) == u

\* line 204: CallbackHandler.callback_url = None.
cleared_callback(u) == NoRequest

\* lines 204-206: the callback slot is cleared and the wait begins.
reset_callback ==
    /\ variant = "auth" /\ pc = "flow_reset"
    /\ callback_url' = cleared_callback(callback_url)
    /\ waited' = 0
    /\ pc' = "flow_wait"
    /\ UNCHANGED <<variant, report, pc2, config, file, now, tokens, auth_client, server,
                   op, local, ret, qb_client, rioVars, serving, sock, histVars>>

\* callback_verdict letting an error callback through to the exchange.
callback_verdict_lenient(u) ==
    IF u.error # NoneV THEN "ok"
    ELSE IF u.code = NoneV THEN "no_code"
    ELSE IF ~Truthy(u.realmId) THEN "no_realm"
    ELSE "ok"

\* Why lines 219-233 reject the callback u, or "ok".
callback_verdict(u) ==
    IF u.error # NoneV THEN "denied"
    ELSE IF u.code = NoneV THEN "no_code"
    ELSE IF ~Truthy(u.realmId) THEN "no_realm"
    ELSE "ok"

\* lines 228-229: auth_code and company_id as parsed from the callback URL.
callback_grant(u) ==
    [code |-> u.code, realm_id |-> u.realmId, error |-> NoneV]

\* lines 208-233: one turn of the wait loop, and the callback once it is there.
wait_for_callback ==
    /\ variant = "auth" /\ pc = "flow_wait"
    /\ IF callback_url = NoRequest
       THEN /\ waited > TimeoutTicks
            /\ faults' = faults \cup {"timeout"}
            /\ FlowReturn("false")
            /\ UNCHANGED local
       ELSE LET v == callback_verdict(callback_url) IN
            IF v = "ok"
            THEN /\ local' = callback_grant(callback_url)
                 /\ pc' = "flow_exchange"
                 /\ UNCHANGED <<faults, ret, qb_client, serving, sock>>
            ELSE /\ faults' = faults \cup {v}
                 /\ FlowReturn("false")
                 /\ UNCHANGED local
    /\ UNCHANGED <<variant, report, pc2, config, file, now, tokens, auth_client, server,
                   callback_url, op, rioVars, waited, hits, calls, start, sent, ncalls, issued, boots>>

\* lines 236-247: the code exchange and the store of its answer.
get_bearer_token ==
    /\ variant = "auth" /\ pc = "flow_exchange"
    /\ calls' = [calls EXCEPT !.exchange = @ + 1]
    /\ \/ \E g \in Grants, ok \in BOOLEAN :
            /\ auth_client' = granted(auth_client, g)
            /\ tokens' = exchanged_record(auth_client', local.realm_id, now)
            /\ file' = save_tokens(file, tokens', ok)
            /\ faults' = IF ok THEN faults ELSE faults \cup {"save"}
            /\ issued' = issue(g, config, now)
            /\ FlowReturn("true")
       \/ /\ faults' = faults \cup {"exchange"}
          /\ FlowReturn("false")
          /\ UNCHANGED <<auth_client, tokens, file, issued>>
    /\ UNCHANGED <<variant, report, pc2, config, now, server, callback_url, op, local,
                   rioVars, waited, hits, start, sent, ncalls, boots>>

\* get_authenticated_client without its test of the two fields.
build_client_unchecked(t, n, c, b) ==
    IF ~b THEN NoClient
    ELSE [built |-> TRUE, access_token |-> t.access_token,
          company_id |-> t.company_id, environment |-> c.environment]

\* The client get_authenticated_client returns after a True (lines 303-320),
\* built (b) or not by the QuickBooks constructor.
build_client(t, n, c, b) ==
    LET access_token == get_access_token(t, n) IN
    IF ~Truthy(access_token) \/ access_token = Raise \/ ~Truthy(t.company_id) \/ ~b
    THEN NoClient
    ELSE [built |-> TRUE, access_token |-> access_token,
          company_id |-> t.company_id, environment |-> c.environment]

create_client ==
    /\ variant = "auth" /\ pc = "build"
    /\ \E b \in BOOLEAN : qb_client' = build_client(tokens, now, config, b)
    /\ pc' = IF op = "generate" THEN "generated" ELSE "idle"
    /\ UNCHANGED <<variant, report, pc2, config, file, now, tokens, auth_client, server,
                   callback_url, op, local, ret, rioVars, netVars, histVars>>

\* The status CallbackHandler.do_GET answers with: 200 to every path that
\* starts with /callback, 404 to the rest.
send_response(req) == IF req.path = "/callback" THEN 200 ELSE 404

\* CallbackHandler.do_GET: a /callback request overwrites the slot.
do_GET ==
    /\ variant = "auth" /\ serving /\ Len(hits) < MaxHits
    /\ \E req \in Requests :
        /\ callback_url' = IF req.path = "/callback" THEN req ELSE callback_url
        /\ hits' = Append(hits, req)
    /\ UNCHANGED <<variant, report, pc2, config, file, now, tokens, auth_client, server,
                   pc, op, local, ret, qb_client, rioVars, netVars, calls,
                   faults, start, sent, ncalls, issued, boots>>

\* ------------------------------------ run_interactive_oauth (oauth_flow.py)

\* lines 16-48: a fresh OAuthHandler class, the bind of HTTPServer and the
\* start of its thread. A failed bind raises out of the function.
run_interactive_oauth ==
    /\ variant = "rio" /\ rio_pc = "idle"
    /\ ncalls < MaxCalls
    /\ ncalls' = ncalls + 1
    /\ handler' = NoGrant
    /\ hits' = <<>> /\ local' = NoGrant
    /\ calls' = [ZeroCalls EXCEPT !.flow = 1, !.bind = 1]
    /\ \/ /\ ~sock
          /\ serving' = TRUE /\ sock' = TRUE
          /\ faults' = {}
          /\ rio_ret' = "none"
          /\ rio_pc' = "url"
       \/ /\ faults' = {"bind"}
          /\ rio_ret' = Raise
          /\ rio_pc' = "idle"
          /\ UNCHANGED <<serving, sock>>
    /\ UNCHANGED <<variant, report, pc2, config, file, now, tokens, auth_client, server,
                   callback_url, pc, op, ret, qb_client, handler_req, waited,
                   start, sent, issued, boots>>

\* lines 51-57: the authorization URL; on an exception the server is shut
\* down (see rio_shutdown) and the exception raised again.
rio_get_authorization_url ==
    /\ variant = "rio" /\ rio_pc = "url"
    /\ \/ /\ rio_pc' = "browser"
          /\ UNCHANGED faults
       \/ /\ faults' = faults \cup {"url"}
          /\ rio_pc' = "shutdown"
    /\ UNCHANGED <<variant, report, pc2, config, file, now, authVars, handler, handler_req,
                   rio_ret, netVars, hits, calls, start, sent, ncalls, issued, boots>>

\* line 59: webbrowser.open, outside every try: its exception leaves the
\* function with the server running.
rio_open_browser ==
    /\ variant = "rio" /\ rio_pc = "browser"
    /\ calls' = [calls EXCEPT !.browser = @ + 1]
    /\ \/ /\ rio_pc' = "wait"
          /\ waited' = 0
          /\ UNCHANGED <<faults, rio_ret>>
       \/ /\ faults' = faults \cup {"browser"}
          /\ rio_ret' = Raise
          /\ rio_pc' = "idle"
          /\ UNCHANGED waited
    /\ UNCHANGED <<variant, report, pc2, config, file, now, authVars, handler, handler_req,
                   serving, sock, hits, start, sent, ncalls, issued, boots>>

\* line 62: the loop's test, which reads neither a clock nor a deadline.
rio_wait ==
    /\ variant = "rio" /\ rio_pc = "wait"
    /\ rio_pc' = IF handler.code = NoneV /\ handler.error = NoneV
                 THEN "sleep" ELSE "shutdown"
    /\ UNCHANGED <<variant, report, pc2, config, file, now, authVars, handler, handler_req,
                   rio_ret, netVars, histVars>>

\* line 63: time.sleep(0.5) returns.
rio_sleep ==
    /\ variant = "rio" /\ rio_pc = "sleep"
    /\ rio_pc' = "wait"
    /\ UNCHANGED <<variant, report, pc2, config, file, now, authVars, handler, handler_req,
                   rio_ret, netVars, histVars>>

\* What lines 66-71 do with the grant once the server is down.
rio_verdict(h) ==
    IF Truthy(h.error) THEN "denied"
    ELSE IF ~Truthy(h.code) \/ ~Truthy(h.realm_id) THEN "no_code_or_realm"
    ELSE "ok"

\* httpd.shutdown() returning while do_GET is between its two writes.
shutdown_returns_at_once(req) == TRUE

\* lines 64-65: httpd.shutdown() and server_thread.join() return once
\* serve_forever has left its loop, which it does between two requests: the
\* handler thread is in no do_GET.
shutdown_returns(req) == req = NoRequest

\* lines 55-56 and 64-71: the server is shut down and the grant is looked
\* at; server_close() is not called, so the socket stays open.
rio_shutdown ==
    /\ variant = "rio" /\ rio_pc = "shutdown"
    /\ shutdown_returns(handler_req)
    /\ serving' = FALSE
    /\ IF "url" \in faults
       THEN /\ rio_ret' = Raise /\ rio_pc' = "idle"
            /\ UNCHANGED faults
       ELSE LET v == rio_verdict(handler) IN
            IF v = "ok"
            THEN /\ rio_pc' = "exchange"
                 /\ UNCHANGED <<faults, rio_ret>>
            ELSE /\ faults' = faults \cup {v}
                 /\ rio_ret' = Raise /\ rio_pc' = "idle"
    /\ UNCHANGED <<variant, report, pc2, config, file, now, authVars, handler, handler_req,
                   sock, waited, hits, calls, start, sent, ncalls, issued, boots>>

\* lines 72-84: the code exchange with the handler's code and realm id.
rio_get_bearer_token ==
    /\ variant = "rio" /\ rio_pc = "exchange"
    /\ calls' = [calls EXCEPT !.exchange = @ + 1]
    /\ local' = [code |-> handler.code, realm_id |-> handler.realm_id,
                 error |-> NoneV]
    /\ \/ /\ rio_ret' = "tokens"
          /\ \E g \in Grants : issued' = issue(g, config, now)
          /\ UNCHANGED faults
       \/ /\ rio_ret' = Raise
          /\ faults' = faults \cup {"exchange"}
          /\ UNCHANGED issued
    /\ rio_pc' = "idle"
    /\ UNCHANGED <<variant, report, pc2, config, file, now, tokens, auth_client, server,
                   callback_url, pc, op, ret, qb_client, handler, handler_req,
                   netVars, hits, start, sent, ncalls, boots>>

\* The status OAuthHandler.do_GET answers with (lines 27, 33, 37).
rio_send_response(req) ==
    IF req.code # NoneV /\ req.realmId # NoneV /\ req.path = "/callback"
    THEN 200 ELSE 400

\* OAuthHandler.do_GET, lines 21-39. The success branch writes code, then
\* realm_id (do_GET_realm_id); the other branches write at most one field.
rio_do_GET ==
    /\ variant = "rio" /\ serving /\ handler_req = NoRequest
    /\ Len(hits) < MaxHits
    /\ \E req \in Requests :
        /\ hits' = Append(hits, req)
        /\ IF req.code # NoneV /\ req.realmId # NoneV /\ req.path = "/callback"
           THEN /\ handler' = [handler EXCEPT !.code = req.code]
                /\ handler_req' = req
           ELSE IF req.error # NoneV
           THEN /\ handler' = [handler EXCEPT !.error = req.error]
                /\ UNCHANGED handler_req
           ELSE UNCHANGED <<handler, handler_req>>
    /\ UNCHANGED <<variant, report, pc2, config, file, now, authVars, rio_pc, rio_ret,
                   netVars, calls, faults, start, sent, ncalls, issued, boots>>

\* line 26: the second write of the success branch.
rio_do_GET_realm_id ==
    /\ variant = "rio" /\ handler_req # NoRequest
    /\ handler' = [handler EXCEPT !.realm_id = handler_req.realmId]
    /\ handler_req' = NoRequest
    /\ UNCHANGED <<variant, report, pc2, config, file, now, authVars, rio_pc, rio_ret,
                   netVars, histVars>>

\* The HTTPServer object of a call that has ended is unreferenced once its
\* thread has stopped; when the interpreter frees it, the socket closes.
rio_httpd_freed ==
    /\ variant = "rio" /\ rio_pc = "idle"
    /\ sock /\ ~serving
    /\ sock' = FALSE
    /\ UNCHANGED <<variant, report, pc2, config, file, now, authVars, rioVars, serving,
                   waited, histVars>>

\* ------------- utils/auth.py, services/qbo_client.py and services/qbo.py

\* utils/auth.py save_tokens and services/qbo.py save_tokens: the file holds
\* {"refresh_token": ...} and nothing else; a failed write leaves it alone
\* (and raises).
utils_save_tokens(f, refresh_token, ok) ==
    IF ok THEN FileOf([EmptyDict EXCEPT !.refresh_token = refresh_token]) ELSE f

\* utils/auth.py load_tokens: {} for a missing file, for one without
\* refresh_token, for malformed JSON and for an unreadable file.
utils_load_tokens(f) ==
    [raised |-> FALSE,
     data |-> IF f.state = "ok" /\ f.data.refresh_token # NoneV
              THEN f.data ELSE EmptyDict]

\* services/qbo.py load_tokens: {} for a missing file; open and json.load
\* stand in no try, so an unreadable or malformed file raises.
svc_load_tokens(f) ==
    [raised |-> f.state = "corrupt",
     data |-> IF f.state = "ok" THEN f.data ELSE EmptyDict]

\* utils/auth.py run_auth_flow (main.py --auth): the user pastes the callback
\* URL u, the code is exchanged, the refresh token saved, and the process
\* exits with 0 or 1.
run_auth_flow ==
    /\ variant = "conn" /\ pc = "idle"
    /\ ncalls < MaxCalls
    /\ ncalls' = ncalls + 1
    /\ op' = "auth_flow"
    /\ hits' = <<>>
    /\ start' = [tokens |-> tokens, access |-> NoneV]
    /\ IF ~is_configured(config)
       THEN /\ ret' = "exit1" /\ faults' = {"unconfigured"}
            /\ calls' = ZeroCalls
            /\ UNCHANGED <<auth_client, local, file, issued>>
       ELSE \E u \in Requests :
            IF ~Truthy(u.code) \/ ~Truthy(u.realmId)
            THEN /\ ret' = "exit1" /\ faults' = {"no_code_or_realm"}
                 /\ calls' = ZeroCalls
                 /\ UNCHANGED <<auth_client, local, file, issued>>
            ELSE /\ calls' = [ZeroCalls EXCEPT !.exchange = 1]
                 /\ \/ \E g \in Grants, ok \in BOOLEAN :
                         /\ auth_client' = granted(NoAuthClient, g)
                         /\ local' = callback_grant(u)
                         /\ file' = utils_save_tokens(file, g.refresh_token, ok)
                         /\ ret' = IF ok THEN "exit0" ELSE "exit1"
                         /\ faults' = IF ok THEN {} ELSE {"save"}
                         /\ issued' = issue(g, config, now)
                    \/ /\ ret' = "exit1" /\ faults' = {"exchange"}
                       /\ UNCHANGED <<auth_client, local, file, issued>>
    /\ UNCHANGED <<variant, report, pc2, config, now, tokens, server, callback_url, pc,
                   qb_client, rioVars, netVars, sent, boots>>

\* qbo_connection up to its yield: the AuthClient, load_tokens(), the
\* QuickBooks client and the test call. config is the object the caller
\* passes. start.tokens keeps the refresh_token loaded at entry.
qbo_connection ==
    /\ variant \in {"conn", "svc"} /\ pc = "idle"
    /\ ncalls < MaxCalls
    /\ ncalls' = ncalls + 1
    /\ op' = "connection"
    /\ hits' = <<>> /\ calls' = ZeroCalls /\ local' = NoGrant
    /\ LET l == IF variant = "conn" THEN utils_load_tokens(file)
                ELSE svc_load_tokens(file) IN
       /\ tokens' = l.data
       /\ start' = [tokens |-> l.data, access |-> NoneV]
       /\ IF l.raised
          THEN /\ ret' = "load_error" /\ faults' = {"load"}
               /\ pc' = "idle"
               /\ auth_client' = NoAuthClient
          ELSE IF ~Truthy(l.data.refresh_token)
          THEN /\ ret' = "no_token" /\ faults' = {"no_token"}
               /\ pc' = "idle"
               /\ auth_client' = NoAuthClient
          ELSE \/ /\ ret' = "open" /\ faults' = {}
                  /\ pc' = "open"
                  /\ auth_client' = [NoAuthClient EXCEPT
                                       !.exists = TRUE,
                                       !.refresh_token = l.data.refresh_token]
               \/ /\ ret' = "auth_failed" /\ faults' = {"connect"}
                  /\ pc' = "idle"
                  /\ auth_client' = NoAuthClient
    /\ UNCHANGED <<variant, report, pc2, config, file, now, server, callback_url,
                   qb_client, rioVars, netVars, sent, issued, boots>>

\* Inside the with-block the SDK refreshes the tokens once and the client's
\* refresh_token becomes what the endpoint answered.
qbo_connection_body ==
    /\ variant \in {"conn", "svc"} /\ pc = "open"
    /\ auth_client.access_token = NoneV
    /\ \E g \in Grants :
        /\ auth_client' = granted(auth_client, g)
        /\ issued' = [issued EXCEPT !.valid_until = now + g.expires_in]
    /\ UNCHANGED <<variant, report, pc2, config, file, now, tokens, server, callback_url,
                   pc, op, local, ret, qb_client, rioVars, netVars, hits,
                   calls, faults, start, sent, ncalls, boots>>

\* The finally of qbo_connection saving whenever the context closes.
token_changed_always(new, old) == TRUE

\* qbo_client.py 92 and qbo.py 78: client.refresh_token != refresh_token.
token_changed(new, old) == new # old

\* The finally of qbo_connection (qbo_client.py 89-97, qbo.py 76-79): the
\* body has returned or has raised, and the client's refresh token is saved
\* when it differs from the one loaded.
qbo_connection_close ==
    /\ variant \in {"conn", "svc"} /\ pc = "open"
    /\ pc' = "idle"
    /\ \E raised \in BOOLEAN :
       IF /\ token_changed(auth_client.refresh_token, start.tokens.refresh_token)
          /\ variant = "conn" => Truthy(auth_client.refresh_token)
       THEN \E ok \in BOOLEAN :
            /\ file' = utils_save_tokens(file, auth_client.refresh_token, ok)
            /\ ret' = IF ~ok THEN "save_error"
                      ELSE IF raised THEN "body_error" ELSE "closed"
            /\ faults' = IF ok THEN faults ELSE faults \cup {"save"}
       ELSE /\ ret' = IF raised THEN "body_error" ELSE "closed"
            /\ UNCHANGED <<file, faults>>
    /\ UNCHANGED <<variant, report, pc2, config, now, tokens, auth_client, server,
                   callback_url, op, local, qb_client, rioVars, netVars,
                   hits, calls, start, sent, ncalls, issued, boots>>

\* Time passes: the clock, and the time the wait loop has waited.
InWait == pc = "flow_wait" \/ rio_pc \in {"wait", "sleep"}

Tick ==
    /\ now < MaxClock \/ (InWait /\ waited <= TimeoutTicks)
    /\ now' = IF now < MaxClock THEN now + 1 ELSE now
    /\ waited' = IF InWait /\ waited <= TimeoutTicks THEN waited + 1 ELSE waited
    /\ UNCHANGED <<variant, report, pc2, config, file, authVars, rioVars, serving, sock, histVars>>

Next ==
    \/ ensure_authenticated
    \/ get_authenticated_client
    \/ refresh_tokens
    \/ start_callback_server
    \/ get_authorization_url
    \/ open_browser
    \/ reset_callback
    \/ wait_for_callback
    \/ get_bearer_token
    \/ create_client
    \/ do_GET
    \/ run_interactive_oauth
    \/ rio_get_authorization_url
    \/ rio_open_browser
    \/ rio_wait
    \/ rio_sleep
    \/ rio_shutdown
    \/ rio_get_bearer_token
    \/ rio_do_GET
    \/ rio_do_GET_realm_id
    \/ rio_httpd_freed
    \/ run_auth_flow
    \/ qbo_connection
    \/ qbo_connection_body
    \/ qbo_connection_close
    \/ Tick

Spec == Init /\ [][Next]_vars

\* The scheduler runs the calling thread and the listener thread, and the
\* clock advances; nothing obliges a caller to call or a browser to send.
ThreadSteps ==
    \/ refresh_tokens
    \/ start_callback_server
    \/ get_authorization_url
    \/ open_browser
    \/ reset_callback
    \/ wait_for_callback
    \/ get_bearer_token
    \/ create_client
    \/ rio_get_authorization_url
    \/ rio_open_browser
    \/ rio_wait
    \/ rio_sleep
    \/ rio_shutdown
    \/ rio_get_bearer_token
    \/ rio_do_GET_realm_id

\* A process that starts with no token file or with an expired, refreshable
\* record, and a complete configuration.
FairInit ==
    /\ Init
    /\ is_configured(config)
    /\ file \in {FileMissing,
                 FileOf([access_token |-> "a0", refresh_token |-> "r0",
                         company_id |-> "c0", expires_at |-> ExpAt(0)])}

FairSpec ==
    FairInit /\ [][Next]_vars /\ WF_vars(Tick) /\ WF_vars(ThreadSteps)

\* The process ends and a new one is started: the module is imported again,
\* config reads the environment variables (QBO_ENVIRONMENT may have been
\* changed meanwhile) and the new QBOTokenManager loads the token file. The
\* old process's listener and socket are gone with it.
restart ==
    /\ variant = "auth" /\ pc = "idle"
    /\ boots < MaxBoots
    /\ boots' = boots + 1
    /\ \E e \in Environments : config' = [config EXCEPT !.environment = e]
    /\ tokens' = load_tokens(file)
    /\ auth_client' = NoAuthClient
    /\ server' = NoneV
    /\ callback_url' = NoRequest
    /\ op' = "none" /\ local' = NoGrant
    /\ ret' = "none" /\ qb_client' = NoClient
    /\ serving' = FALSE /\ sock' = FALSE /\ waited' = 0
    /\ hits' = <<>> /\ calls' = ZeroCalls /\ faults' = {}
    /\ start' = [tokens |-> tokens', access |-> NoneV]
    /\ sent' = [token |-> NoneV, returned |-> NoneV]
    /\ UNCHANGED <<variant, report, pc2, file, now, pc, rioVars, ncalls, issued>>

NextWithRestart == Next \/ restart

\* A configured installation that starts without credentials and may be
\* restarted.
RestartInit ==
    InitWith({c \in Configs : is_configured(c)}, {FileMissing, FileCorrupt})

RestartSpec == RestartInit /\ [][NextWithRestart]_vars

\* ------------------------- clear_tokens, get_company_info and revoke_tokens

\* clear_tokens keeping the refresh token in memory.
cleared_tokens_keeping_refresh(t) == [EmptyDict EXCEPT !.refresh_token = t.refresh_token]

\* clear_tokens, line 125: self._tokens = {}.
cleared_tokens(t) == EmptyDict

\* clear_tokens unlinking without the test of exists().
unlink_token_file_unguarded(f, ok) ==
    IF f.state = "missing" THEN [file |-> f, raised |-> TRUE]
    ELSE IF ok THEN [file |-> FileMissing, raised |-> FALSE]
    ELSE [file |-> f, raised |-> TRUE]

\* clear_tokens, lines 126-127: the file is unlinked when it exists; an
\* unlink the file system refuses (ok = FALSE) raises and leaves the file.
unlink_token_file(f, ok) ==
    IF f.state = "missing" THEN [file |-> f, raised |-> FALSE]
    ELSE IF ok THEN [file |-> FileMissing, raised |-> FALSE]
    ELSE [file |-> f, raised |-> TRUE]

\* QBOTokenManager.clear_tokens, called on the idle authenticator.
clear_tokens ==
    /\ variant = "auth" /\ pc = "idle"
    /\ ncalls < MaxCalls
    /\ ncalls' = ncalls + 1
    /\ op' = "clear"
    /\ start' = [tokens |-> tokens, access |-> NoneV]
    /\ hits' = <<>> /\ calls' = ZeroCalls /\ local' = NoGrant
    /\ qb_client' = NoClient
    /\ tokens' = cleared_tokens(tokens)
    /\ \E ok \in BOOLEAN :
        LET u == unlink_token_file(file, ok) IN
        /\ file' = u.file
        /\ ret' = IF u.raised THEN Raise ELSE NoneV
        /\ faults' = IF file.state # "missing" /\ ~ok THEN {"unlink"} ELSE {}
    /\ UNCHANGED <<variant, report, pc2, config, now, auth_client, server, callback_url,
                   pc, rioVars, netVars, sent, issued, boots>>

\* get_company_info going on to refresh an expired record.
after_company_info_refreshing(t, n) ==
    IF is_authenticated(t, n) = "false" /\ Truthy(t.refresh_token)
    THEN "refresh" ELSE "idle"

\* Where the caller is after get_company_info (lines 327-337): it has
\* returned.
after_company_info(t, n) == "idle"

\* What get_company_info returns: None when not authenticated, the dict of
\* company_id, environment, created_at and expires_at otherwise, or the
\* exception of is_authenticated.
company_info(t, n) ==
    LET auth == is_authenticated(t, n) IN
    IF auth = Raise THEN Raise
    ELSE IF auth = "false" THEN NoneV
    ELSE "company_info"

\* AutoQBOAuthenticator.get_company_info.
get_company_info ==
    /\ variant = "auth" /\ pc = "idle"
    /\ ncalls < MaxCalls
    /\ ncalls' = ncalls + 1
    /\ op' = "info"
    /\ start' = [tokens |-> tokens, access |-> get_access_token(tokens, now)]
    /\ hits' = <<>> /\ calls' = ZeroCalls /\ faults' = {} /\ local' = NoGrant
    /\ qb_client' = NoClient
    /\ ret' = company_info(tokens, now)
    /\ pc' = after_company_info(tokens, now)
    /\ UNCHANGED <<variant, report, pc2, config, file, now, tokens, auth_client, server,
                   callback_url, rioVars, netVars, sent, issued, boots>>

\* revoke_tokens: False when no refresh token is held; otherwise the token is
\* posted to the revocation endpoint and, once the endpoint confirms, the
\* record and the file are cleared with clear_tokens. When the endpoint
\* refuses or cannot be reached the local state is kept or cleared.
revoke_tokens ==
    /\ variant = "auth" /\ pc = "idle"
    /\ ncalls < MaxCalls
    /\ ncalls' = ncalls + 1
    /\ op' = "revoke"
    /\ start' = [tokens |-> tokens, access |-> NoneV]
    /\ hits' = <<>> /\ local' = NoGrant /\ qb_client' = NoClient
    /\ IF ~Truthy(get_refresh_token(tokens))
       THEN /\ ret' = "false"
            /\ calls' = ZeroCalls /\ faults' = {}
            /\ UNCHANGED <<tokens, file, sent>>
       ELSE /\ calls' = [ZeroCalls EXCEPT !.revoke = 1]
            /\ \/ \E ok \in BOOLEAN :
                    LET u == unlink_token_file(file, ok) IN
                    /\ sent' = [token |-> get_refresh_token(tokens),
                                returned |-> "revoked"]
                    /\ tokens' = cleared_tokens(tokens)
                    /\ file' = u.file
                    /\ ret' = IF u.raised THEN Raise ELSE "true"
                    /\ faults' = IF file.state # "missing" /\ ~ok THEN {"unlink"} ELSE {}
               \/ /\ sent' = [token |-> get_refresh_token(tokens),
                              returned |-> NoneV]
                  /\ faults' = {"revoke"}
                  /\ ret' \in {"false", Raise}
                  /\ \/ UNCHANGED <<tokens, file>>
                     \/ /\ tokens' = cleared_tokens(tokens)
                        /\ file' = unlink_token_file(file, TRUE).file
    /\ UNCHANGED <<variant, report, pc2, config, now, auth_client, server, callback_url,
                   pc, rioVars, netVars, issued, boots>>

NextWithAdmin ==
    \/ Next
    \/ clear_tokens
    \/ get_company_info
    \/ revoke_tokens

\* The token files of an installation that has been granted access before.
AdminFiles ==
    {FileMissing, FileCorrupt} \cup
    {FileOf(d) : d \in {x \in StoredDicts :
                          /\ x.access_token = "a0" /\ x.company_id = "c0"
                          /\ x.expires_at \in {ExpAt(0), ExpAt(1)}}}

AdminInit == InitWith({c \in Configs : is_configured(c)}, AdminFiles)

\* The tool layer calls every method the authenticator exposes.
AdminSpec == AdminInit /\ [][NextWithAdmin]_vars

\* --------------------------------- a second caller of ensure_authenticated

\* The first caller's flow holds the listener it bound.
FlowBound == pc \in {"flow_url", "flow_browser", "flow_reset", "flow_wait"}

\* A second thread calls ensure_authenticated on the same authenticator
\* while the first caller's flow is running (lines 283-295; nothing
\* serializes the callers).
second_ensure_authenticated ==
    /\ variant = "auth" /\ FlowBound /\ pc2 = "idle"
    /\ ncalls < MaxCalls
    /\ ncalls' = ncalls + 1
    /\ LET auth == is_authenticated(tokens, now) IN
       pc2' = IF auth \in {Raise, "true"} THEN "idle" ELSE after_unusable(tokens)
    /\ UNCHANGED <<variant, report, config, file, now, authVars, rioVars, netVars,
                   hits, calls, faults, start, sent, issued, boots>>

\* _refresh_tokens of the second caller, on the shared record and client.
second_refresh_tokens ==
    /\ variant = "auth" /\ pc2 = "refresh"
    /\ LET ac == get_auth_client(auth_client, tokens, now) IN
       \/ \E g \in Grants, ok \in BOOLEAN :
            /\ is_configured(config)
            /\ auth_client' = granted(ac, g)
            /\ tokens' = refreshed_record(tokens, auth_client', now)
            /\ file' = save_tokens(file, tokens', ok)
            /\ issued' = [issued EXCEPT !.valid_until = now + g.expires_in]
            /\ pc2' = "idle"
       \/ /\ auth_client' = ac
          /\ pc2' = after_failed_refresh
          /\ UNCHANGED <<tokens, file, issued>>
    /\ UNCHANGED <<variant, report, config, now, server, callback_url, pc, op, local,
                   ret, qb_client, rioVars, netVars, histVars>>

\* _perform_oauth_flow of the second caller up to its bind. HTTPServer()
\* raises before self._server is assigned (line 163), so in the "finally"
\* _stop_callback_server finds in self._server whatever server was assigned
\* last. When the port is free and the first caller has returned, the second
\* caller binds and is the only caller left: its flow goes on as the first
\* caller's does.
second_start_callback_server ==
    /\ variant = "auth" /\ pc2 = "flow"
    /\ pc2' = "idle"
    /\ \/ \* the configuration is incomplete or the bind fails (the port is
          \* the first caller's, or another process's): "finally"
          /\ stop_callback_server
          /\ UNCHANGED <<server, pc, op, local, ret, qb_client, hits, calls,
                         faults, start>>
       \/ /\ is_configured(config) /\ ~sock /\ pc = "idle"
          /\ server' = "httpd"
          /\ serving' = TRUE /\ sock' = TRUE
          /\ pc' = "flow_url"
          /\ op' = "ensure" /\ ret' = "none" /\ qb_client' = NoClient
          /\ local' = NoGrant /\ hits' = <<>> /\ faults' = {}
          /\ calls' = [ZeroCalls EXCEPT !.flow = 1, !.bind = 1]
          /\ start' = [tokens |-> tokens, access |-> NoneV]
    /\ UNCHANGED <<variant, report, config, file, now, tokens, auth_client,
                   callback_url, rioVars, waited, sent, ncalls, issued, boots>>

NextWithOverlap ==
    \/ Next
    \/ second_ensure_authenticated
    \/ second_refresh_tokens
    \/ second_start_callback_server

\* As FairInit: no token file, or an expired record that can be refreshed.
OverlapInit == FairInit

\* Two tool invocations may call ensure_authenticated at the same time.
OverlapSpec == OverlapInit /\ [][NextWithOverlap]_vars

\* ------------------------------------ the report tools (tools.py, server.py)

\* config.validate(): the settings that are missing or invalid.
validate(c) ==
    (IF ~Truthy(c.client_id) THEN {"QBO_CLIENT_ID is required"} ELSE {})
    \cup (IF ~Truthy(c.client_secret) THEN {"QBO_CLIENT_SECRET is required"}
          ELSE {})
    \cup (IF c.environment \notin {"sandbox", "production"}
          THEN {"QBO_ENVIRONMENT must be 'sandbox' or 'production'"} ELSE {})

\* The date pattern of schemas.py as the regular expression engine reads it:
\* in the raw string r"^\\d{4}-\\d{2}-\\d{2}$" each \\ is an escaped
\* backslash, so the pattern is a backslash, the letter d four times, a
\* hyphen, a backslash, the letter d twice, a hyphen, a backslash, the
\* letter d twice.
DatePattern ==
    <<[ch |-> "\\", n |-> 1], [ch |-> "d", n |-> 4], [ch |-> "-", n |-> 1],
      [ch |-> "\\", n |-> 1], [ch |-> "d", n |-> 2], [ch |-> "-", n |-> 1],
      [ch |-> "\\", n |-> 1], [ch |-> "d", n |-> 2]>>

RECURSIVE Repeat(_, _)
Repeat(c, n) == IF n = 0 THEN <<>> ELSE <<c>> \o Repeat(c, n - 1)

RECURSIVE Expand(_)
Expand(p) ==
    IF p = <<>> THEN <<>>
    ELSE Repeat(Head(p).ch, Head(p).n) \o Expand(Tail(p))

\* jsonschema's "type": "string" with "pattern" on a date.
date_schema_valid(d) == d.given /\ d.text = Expand(DatePattern)

\* validate_json_schema of the request against PROFIT_LOSS_REQUEST_SCHEMA or
\* BALANCE_SHEET_REQUEST_SCHEMA.
schema_valid(req) ==
    IF req.tool = "profit_loss"
    THEN date_schema_valid(req.start_date) /\ date_schema_valid(req.end_date)
    ELSE date_schema_valid(req.start_date)

Digits == <<"0", "1", "2", "3", "4", "5", "6", "7", "8", "9">>
IsDigit(c) == \E i \in DOMAIN Digits : Digits[i] = c
DigitVal(c) == (CHOOSE i \in DOMAIN Digits : Digits[i] = c) - 1

\* parse_date: datetime.strptime(text, "%Y-%m-%d").date() on a text of the
\* form dddd-dd-dd, or its ValueError (ok = FALSE).
parse_date(s) ==
    IF /\ Len(s) = 10 /\ s[5] = "-" /\ s[8] = "-"
       /\ \A i \in {1, 2, 3, 4, 6, 7, 9, 10} : IsDigit(s[i])
    THEN LET y == 1000 * DigitVal(s[1]) + 100 * DigitVal(s[2])
                  + 10 * DigitVal(s[3]) + DigitVal(s[4])
             m == 10 * DigitVal(s[6]) + DigitVal(s[7])
             d == 10 * DigitVal(s[9]) + DigitVal(s[10])
         IN IF y >= 1 /\ m \in 1..12 /\ d \in 1..31
            THEN [ok |-> TRUE, day |-> [y |-> y, m |-> m, d |-> d]]
            ELSE [ok |-> FALSE, day |-> NoDay]
    ELSE [ok |-> FALSE, day |-> NoDay]

\* create_report_period (tools.py) and get_report_period (server.py) for a
\* period, "parse_date(as_of_date) if as_of_date else date.today()" for a
\* date: what the generator is to be called with, or a ValueError.
report_arg(req) ==
    IF req.tool = "profit_loss"
    THEN IF req.start_date.given /\ req.end_date.given
         THEN LET a == parse_date(req.start_date.text)
                  b == parse_date(req.end_date.text)
              IN [ok |-> a.ok /\ b.ok,
                  arg |-> [kind |-> "period", from |-> a.day, to |-> b.day]]
         ELSE [ok |-> TRUE,
               arg |-> [kind |-> "current_month", from |-> NoDay, to |-> NoDay]]
    ELSE IF req.start_date.given
         THEN LET a == parse_date(req.start_date.text)
              IN [ok |-> a.ok,
                  arg |-> [kind |-> "date", from |-> a.day, to |-> NoDay]]
         ELSE [ok |-> TRUE,
               arg |-> [kind |-> "today", from |-> NoDay, to |-> NoDay]]

\* The method of reports_generator a tool calls.
generator_method(tool) ==
    IF tool = "profit_loss" THEN "get_profit_and_loss" ELSE "get_balance_sheet"

\* What an exception that is no ValueError becomes: server.py catches
\* Exception, the tools of tools.py catch ValueError only.
uncaught(layer) == IF layer = "server" THEN "error" ELSE Raise

\* The guard going on when ensure_authenticated returned False.
guard_outcome_ignoring_false(layer, r) ==
    IF r = Raise THEN uncaught(layer) ELSE "pass"

\* What the guard does with r, the return of ensure_authenticated
\* (tools.py 106-107 and 241-245, server.py 61-65 and 70-72).
guard_outcome(layer, r) ==
    IF r = Raise THEN uncaught(layer)
    ELSE IF r = "false" THEN "error"
    ELSE "pass"

\* A report tool is invoked: _ensure_authenticated_and_handle_errors
\* (tools.py) or the wrapper of ensure_authenticated_response (server.py)
\* validates the configuration and calls authenticator.ensure_authenticated.
ensure_authenticated_and_handle_errors ==
    /\ variant = "auth" /\ pc = "idle"
    /\ ncalls + 1 < MaxCalls
    /\ \E layer \in {"tools", "server"} :
        IF validate(config) # {}
        THEN /\ report' = [NoReport EXCEPT !.layer = layer, !.guards = 1,
                                           !.status = "error"]
             /\ op' = "tool" /\ ret' = "none" /\ qb_client' = NoClient
             /\ start' = [tokens |-> tokens, access |-> NoneV]
             /\ hits' = <<>> /\ faults' = {} /\ calls' = ZeroCalls
             /\ local' = NoGrant
             /\ UNCHANGED <<variant, pc, pc2, config, file, now, tokens,
                            auth_client, server, callback_url, sent, rioVars,
                            netVars, ncalls, issued, boots>>
        ELSE /\ report' = [NoReport EXCEPT !.layer = layer, !.guards = 1,
                                           !.ensures = 1, !.status = "running"]
             /\ EnterAt("tool", "idle")

\* The guard has its answer; the body of _generate_*_report (tools.py) or of
\* the decorated function (server.py) validates the request and parses its
\* dates.
generate_report ==
    /\ variant = "auth" /\ pc = "guarded"
    /\ LET g == guard_outcome(report.layer, ret) IN
       IF g # "pass"
       THEN /\ report' = [report EXCEPT !.ensured = ret, !.status = g]
            /\ pc' = "idle"
       ELSE \E req \in ReportRequests :
            IF (report.layer = "tools" => schema_valid(req)) /\ report_arg(req).ok
            THEN /\ report' = [report EXCEPT !.ensured = ret, !.request = req]
                 /\ pc' = "generate"
            ELSE /\ report' = [report EXCEPT !.ensured = ret, !.request = req,
                                             !.status = "error"]
                 /\ pc' = "idle"
    /\ UNCHANGED <<variant, config, file, now, tokens, auth_client, server,
                   callback_url, pc2, op, local, ret, qb_client, rioVars,
                   netVars, histVars>>

\* reports_generator.get_profit_and_loss or get_balance_sheet is called; its
\* _get_client calls authenticator.get_authenticated_client (reports.py
\* 37-45).
get_report ==
    /\ report' = [report EXCEPT
                    !.generated =
                        Append(@, [method |-> generator_method(report.request.tool),
                                   arg |-> report_arg(report.request).arg])]
    /\ EnterAt("generate", "generate")

\* The generator has its client or not: client.get_report answers (ok) or
\* raises, and the tool returns.
report_result ==
    /\ variant = "auth" /\ pc = "generated"
    /\ pc' = "idle"
    /\ IF ret = Raise
       THEN report' = [report EXCEPT !.status = uncaught(report.layer)]
       ELSE IF ~qb_client.built
       THEN report' = [report EXCEPT !.status = "error"]
       ELSE \E ok \in BOOLEAN :
            report' = IF ok
                      THEN [report EXCEPT !.status = "success",
                                          !.data = "processed_report"]
                      ELSE [report EXCEPT !.status = uncaught(report.layer)]
    /\ UNCHANGED <<variant, config, file, now, tokens, auth_client, server,
                   callback_url, pc2, op, local, ret, qb_client, rioVars,
                   netVars, histVars>>

NextWithTools ==
    \/ Next
    \/ ensure_authenticated_and_handle_errors
    \/ generate_report
    \/ get_report
    \/ report_result

\* No token file, or a usable record with a refresh token.
ToolFiles ==
    {FileMissing,
     FileOf([access_token |-> "a0", refresh_token |-> "r0",
             company_id |-> "c0", expires_at |-> ExpAt(1)])}

\* Complete credentials, or QBO_CLIENT_ID not set.
ToolConfigs == {c \in Configs : Truthy(c.client_secret)}

ToolInit == InitWith(ToolConfigs, ToolFiles)

\* The MCP server invokes report tools.
ToolSpec == ToolInit /\ [][NextWithTools]_vars

\* ------------------------------------------------------------- the claims

\* ensure_authenticated has returned or raised (get_authenticated_client may
\* still have its client to build).
EnsureDone ==
    /\ variant = "auth" /\ op \in {"ensure", "client"}
    /\ ncalls > 0 /\ pc \in {"idle", "build"}

\* The step in which ensure_authenticated returns or raises.
EnsureReturns ==
    /\ variant = "auth" /\ op' \in {"ensure", "client"}
    /\ pc' \in {"idle", "build"}
    /\ ncalls' # ncalls \/ pc \notin {"idle", "build"}

\* The step in which a caller enters ensure_authenticated.
EnsureEnters ==
    /\ variant = "auth" /\ pc = "idle"
    /\ ncalls' # ncalls /\ op' \in {"ensure", "client"}

\* The step in which _refresh_tokens gets the endpoint's answer.
RefreshAnswered == variant = "auth" /\ calls'.refresh = calls.refresh + 1

\* The record reads as usable at the latest: every field present (not None)
\* and the expiry in the future.
Present(v) == v # NoneV

UsableRecord(t, n) ==
    /\ t.expires_at.kind = "time" /\ n < t.expires_at.at
    /\ Present(t.access_token) /\ Present(t.company_id)

\* C1: whenever ensure_authenticated() returns True, the record is usable at
\* that moment: access_token present and unexpired, company id present.
C1_TrueMeansUsable ==
    [][EnsureReturns /\ ret' = "true" => UsableRecord(tokens', now')]_vars

\* C2: a call that finds an unexpired access_token and a non-empty realm id
\* returns True in its first step, having made no refresh, bind, browser open
\* or exchange, and leaves record, file, client and listener alone.
C2_UsableMeansNoNetwork ==
    [][EnsureEnters /\ Usable(tokens, now)
        => /\ ret' = "true" /\ pc' \in {"idle", "build"}
           /\ calls' = ZeroCalls
           /\ UNCHANGED <<tokens, file, auth_client, server, serving, sock>>]_vars

C2_Witness ==
    /\ variant = "auth" /\ op = "ensure" /\ pc = "idle" /\ ncalls = 1
    /\ Truthy(start.access) /\ start.access # Raise
    /\ Truthy(start.tokens.company_id)
    /\ ret = "true" /\ calls = ZeroCalls

\* C3: a call that starts from a record with an absent or expired
\* access_token and a refresh_token has called refresh exactly once when it
\* ends.
C3_RefreshExactlyOnce ==
    (/\ EnsureDone
     /\ Truthy(start.tokens.refresh_token)
     /\ \/ start.tokens.access_token = NoneV
        \/ start.tokens.expires_at.kind = "time" /\ start.access = NoneV)
    => calls.refresh = 1

\* C4: a refresh posts the refresh token the record holds, which after an
\* earlier successful refresh is the token that refresh returned; after a
\* successful refresh the record in memory carries the returned refresh token,
\* and so does the token file whenever its write succeeded.
C4_ReturnedRefreshTokenKept ==
    [][RefreshAnswered
        => /\ sent'.token = tokens.refresh_token
           /\ sent.returned # NoneV => sent'.token = sent.returned
           /\ sent'.returned # NoneV
                => /\ tokens'.refresh_token = sent'.returned
                   /\ "save" \notin faults'
                        => /\ file'.state = "ok"
                           /\ file'.data.refresh_token = sent'.returned]_vars

C4_Witness ==
    /\ variant = "auth" /\ ncalls = 2 /\ calls.refresh = 1
    /\ sent.token = "r1" /\ sent.returned = "r0"
    /\ tokens.refresh_token = "r0" /\ file = FileOf(tokens)

\* C5: within one call refresh is tried at most once and the interactive
\* flow is entered at most once; a call whose refresh failed has entered the
\* flow exactly once by the time it ends.
C5_OneFallback ==
    variant = "auth" =>
        /\ calls.refresh <= 1 /\ calls.flow <= 1
        /\ calls.bind <= 1 /\ calls.exchange <= 1
        /\ EnsureDone /\ "refresh" \in faults
             => calls.refresh = 1 /\ calls.flow = 1

C5_Witness ==
    /\ EnsureDone /\ pc = "idle" /\ "refresh" \in faults
    /\ calls.refresh = 1 /\ calls.flow = 1 /\ calls.exchange = 1
    /\ ret = "true"

\* C6: get_authenticated_client holds a client only after ensure_authenticated
\* returned True and with both fields non-empty, and the client carries the
\* record's access_token and company id; after a False it holds none.
C6_ClientOnlyFromCredentials ==
    /\ qb_client.built
         => /\ op = "client" /\ pc = "idle" /\ ret = "true"
            /\ Truthy(qb_client.access_token) /\ Truthy(qb_client.company_id)
            /\ qb_client.access_token = tokens.access_token
            /\ qb_client.company_id = tokens.company_id
    /\ (op = "client" /\ pc = "idle" /\ ret # "true") => ~qb_client.built

C6_Witness ==
    /\ qb_client.built /\ calls.exchange = 1
    /\ qb_client.company_id = "999"

\* C7: a flow that waits for the grant leaves the wait, whether or not a
\* request ever reaches the listener.
C7_WaitEnds == InWait ~> (~InWait \/ hits # <<>>)

\* The calling thread is in no interactive flow.
NoFlowRunning ==
    /\ variant = "auth" => pc \in {"idle", "build"}
    /\ variant = "rio" => rio_pc = "idle"

\* C8: when no flow is running, no listener is serving: every exit path of a
\* flow that started the listener has shut it down.
C8_ListenerStoppedOnExit == NoFlowRunning => ~serving

\* C9: after a flow has ended with a captured code, with a provider error or
\* with a timeout, the listening socket is closed.
C9_PortFreeAfterFlow ==
    (/\ NoFlowRunning
     /\ \/ variant = "auth" /\ calls.flow = 1
           /\ (calls.exchange = 1 \/ faults \cap {"denied", "timeout"} # {})
        \/ variant = "rio" /\ (calls.exchange = 1 \/ "denied" \in faults))
    => ~sock

\* C10: a call from an empty store with client id and secret, during which
\* the listener handled the one request /callback?code=abc123&realmId=999 and
\* nothing else failed, returns True and leaves realm id 999 in the record.
C10_ImmediateCallbackSucceeds ==
    (/\ variant = "auth" /\ ncalls > 0 /\ pc = "idle"
     /\ start.tokens = EmptyDict /\ is_configured(config)
     /\ hits = <<ReqOk>>
     /\ faults \cap {"bind", "url", "browser", "exchange"} = {})
    => ret = "true" /\ tokens.company_id = "999"

\* The step in which a flow posts its code to the token endpoint.
ExchangeCalled == calls'.exchange = calls.exchange + 1

\* A request to /callback that carries code and realmId and no error.
SuccessCallback(r) ==
    /\ r.path = "/callback" /\ r.error = NoneV
    /\ r.code # NoneV /\ r.realmId # NoneV

\* The code a flow exchanges and the realm id it passes on are the code and
\* realmId of one /callback request its listener handled, the realm id stored
\* with the new credentials is that realm id, and a turn of the wait loop
\* that finds such a callback leaves the wait.
CallbackValuesExchanged ==
    [][/\ (ExchangeCalled /\ variant \in {"auth", "rio"})
            => /\ \E i \in 1..Len(hits) :
                    /\ SuccessCallback(hits[i])
                    /\ local'.code = hits[i].code
                    /\ local'.realm_id = hits[i].realmId
               /\ (variant = "auth" /\ ret' = "true")
                    => tokens'.company_id = local'.realm_id
       /\ (pc = "flow_wait" /\ SuccessCallback(callback_url) /\ pc' # pc)
            => pc' = "flow_exchange" /\ local'.code = callback_url.code
       /\ (rio_pc = "wait" /\ handler.code # NoneV /\ rio_pc' # rio_pc)
            => rio_pc' = "shutdown"]_vars

\* C11: a flow whose listener was bound, whose browser was opened and whose
\* listener handled exactly one request, /callback?code=X&realmId=Y, has
\* left the wait and exchanged code X with realm id Y when it ends.
C11_CallbackUnblocksAndExchanges ==
    (/\ NoFlowRunning /\ ncalls > 0 /\ calls.flow = 1
     /\ Len(hits) = 1 /\ SuccessCallback(hits[1])
     /\ faults \cap {"bind", "url", "browser", "unconfigured"} = {})
    => /\ calls.exchange = 1
       /\ local.code = hits[1].code /\ local.realm_id = hits[1].realmId

\* C12: a flow that finds an error callback ends in that step with a failure
\* (False, or the RuntimeError of run_interactive_oauth), having exchanged no
\* code, and leaves record and file as they were; the call is over, so
\* nothing is retried.
C12_DenialFailsWithoutExchange ==
    [][/\ (pc = "flow_wait" /\ callback_url.error # NoneV /\ pc' # pc)
            => /\ pc' = "idle" /\ ret' = "false" /\ ~qb_client'.built
               /\ calls'.exchange = 0 /\ calls' = calls
               /\ UNCHANGED <<tokens, file>>
       /\ (rio_pc = "shutdown" /\ handler.error # NoneV /\ rio_pc' # rio_pc)
            => /\ rio_pc' = "idle" /\ rio_ret' = Raise
               /\ calls'.exchange = 0 /\ calls' = calls
               /\ UNCHANGED <<tokens, file>>]_vars

C12_Witness ==
    /\ variant = "auth" /\ pc = "idle" /\ ret = "false"
    /\ "denied" \in faults /\ calls.flow = 1 /\ calls.exchange = 0
    /\ hits = <<ReqDenied>>

\* The status the listener of this deployment answers the request r with.
response(r) ==
    IF variant = "auth" THEN send_response(r) ELSE rio_send_response(r)

\* C13: every request with an error parameter was answered 400, and only
\* callbacks with code and realmId were answered 200.
C13_ErrorAnswered400 ==
    \A i \in 1..Len(hits) :
        /\ hits[i].error # NoneV => response(hits[i]) = 400
        /\ response(hits[i]) = 200 => SuccessCallback(hits[i])

\* The step in which the listener handles a request.
HandlerStep == Len(hits') = Len(hits) + 1

\* C14: a request that is neither a success callback nor an error callback
\* is answered 400 and leaves what the wait loop polls as it was.
C14_OtherRequestsIgnored ==
    [][(/\ HandlerStep
        /\ ~SuccessCallback(hits'[Len(hits')])
        /\ hits'[Len(hits')].error = NoneV)
        => /\ response(hits'[Len(hits')]) = 400
           /\ UNCHANGED <<callback_url, handler>>]_vars

\* C15: a record of this process's grant or refresh that reads as
\* authenticated holds an access token that is still valid at the provider.
C15_ExpiryIsAccessTokenExpiry ==
    (/\ variant = "auth"
     /\ tokens.access_token \in IssuedAccessTokens
     /\ is_authenticated(tokens, now) = "true")
    => now < issued.valid_until

\* C16: the company id of the record changes only in the step that stores a
\* successful code exchange, and becomes the realm id of that callback.
C16_RealmOnlyFromGrant ==
    [][(variant = "auth" /\ tokens'.company_id # tokens.company_id)
        => /\ ExchangeCalled /\ ret' = "true"
           /\ tokens'.company_id = local.realm_id]_vars

C16_Witness ==
    /\ variant = "auth" /\ pc = "idle" /\ ret = "true"
    /\ calls.refresh = 1 /\ calls.flow = 0 /\ sent.returned = "r1"
    /\ start.tokens.company_id = "c0" /\ tokens.company_id = "c0"
    /\ tokens.access_token = "a1"

\* C17: a client built from credentials this installation was granted uses
\* the environment they were granted in.
C17_ClientUsesGrantedEnvironment ==
    (variant = "auth" /\ qb_client.built /\ issued.environment # NoneV)
    => qb_client.environment = issued.environment

\* C18: a call made without client id or client secret, from a record that
\* is not usable, ends with False having called neither refresh nor bind,
\* browser or exchange.
C18_UnconfiguredMakesNoCall ==
    (/\ EnsureDone /\ ~is_configured(config)
     /\ start.access = NoneV \/ start.tokens.company_id = NoneV
     /\ start.access # Raise)
    => /\ ret = "false"
       /\ calls.refresh = 0 /\ calls.bind = 0
       /\ calls.browser = 0 /\ calls.exchange = 0

\* C19: the file written by a save loads back as the record that was saved:
\* the token manager's record after a stored grant or refresh, and the
\* granted tokens and realm id after run_auth_flow.
C19_SaveLoadRoundTrip ==
    /\ (/\ EnsureDone /\ ret = "true" /\ "save" \notin faults
        /\ calls.refresh = 1 \/ calls.exchange = 1)
         => /\ load_tokens(file).access_token = tokens.access_token
            /\ load_tokens(file).refresh_token = tokens.refresh_token
            /\ load_tokens(file).company_id = tokens.company_id
    /\ (variant = "conn" /\ op = "auth_flow" /\ ret = "exit0")
         => /\ utils_load_tokens(file).data.access_token = auth_client.access_token
            /\ utils_load_tokens(file).data.refresh_token = auth_client.refresh_token
            /\ utils_load_tokens(file).data.company_id = local.realm_id

\* C20: no load of the token file raises, and a missing, unreadable or
\* malformed file loads as the empty record.
C20_LoadNeverRaises ==
    /\ ret # "load_error"
    /\ (variant = "auth" /\ ncalls = 0 /\ file.state # "ok")
         => tokens = EmptyDict
    /\ (op = "connection" /\ pc = "idle" /\ ret = "no_token"
        /\ file.state # "ok")
         => tokens = EmptyDict

\* C21: a grant or refresh that succeeds at the token endpoint and then fails
\* to write the token file still ends in success: ensure_authenticated()
\* returns True with the issued access token in memory, run_auth_flow exits
\* with 0, and qbo_connection closes without an exception.
C21_SaveFailureDoesNotAbort ==
    /\ (EnsureDone /\ "save" \in faults)
         => /\ ret = "true"
            /\ tokens.access_token \in IssuedAccessTokens
    /\ (variant = "conn" /\ op = "auth_flow" /\ "save" \in faults)
         => ret = "exit0"
    /\ (variant \in {"conn", "svc"} /\ op = "connection" /\ pc = "idle"
        /\ "save" \in faults)
         => ret = "closed"

\* The part of C21 that auth.py decides: after a failed write of the token
\* file ensure_authenticated() has returned True and holds the new token.
SaveFailureKeptInMemory ==
    (EnsureDone /\ "save" \in faults)
        => /\ ret = "true"
           /\ tokens.access_token \in IssuedAccessTokens

\* The step in which the tool layer calls the authenticator's method o.
Called(o) == variant = "auth" /\ pc = "idle" /\ ncalls' # ncalls /\ op' = o

\* C22: clear_tokens() empties the in-memory record and leaves no token file,
\* whether or not a file was there, and does not raise unless the file system
\* refuses the unlink; so a second call, or a call with no file, succeeds and
\* leaves the same state.
C22_ClearIsIdempotent ==
    [][Called("clear") /\ "unlink" \notin faults'
        => /\ ret' # Raise
           /\ tokens' = EmptyDict /\ file' = FileMissing
           /\ (tokens = EmptyDict /\ file = FileMissing
                 => UNCHANGED <<tokens, file>>)
           /\ calls' = ZeroCalls
           /\ UNCHANGED <<auth_client, server, serving, sock>>]_vars

\* clear_tokens() was called twice; the first call removed the file.
C22_Witness ==
    /\ variant = "auth" /\ op = "clear" /\ ncalls = 2 /\ pc = "idle"
    /\ start.tokens = EmptyDict
    /\ tokens = EmptyDict /\ file = FileMissing
    /\ ret = NoneV

\* C23: get_company_info() makes no network call, starts no refresh and no
\* flow, and leaves the record and the token file unchanged: in the step of
\* the call, and for as long as it is the last method called.
C23_CompanyInfoReadOnly ==
    [][/\ Called("info")
          => /\ pc' = "idle" /\ calls' = ZeroCalls
             /\ UNCHANGED <<tokens, file, auth_client, server, callback_url,
                            serving, sock, sent, issued>>
       /\ (variant = "auth" /\ op = "info" /\ op' = "info")
          => /\ calls' = ZeroCalls
             /\ UNCHANGED <<tokens, file, auth_client, serving, sock>>]_vars

\* get_company_info() was called on an expired record with a refresh token.
C23_Witness ==
    /\ variant = "auth" /\ op = "info" /\ pc = "idle"
    /\ start.access = NoneV /\ Truthy(start.tokens.refresh_token)
    /\ tokens = start.tokens /\ file.state = "ok"
    /\ ret = NoneV /\ calls = ZeroCalls

\* C26: after revoke_tokens() with a refresh token held and a revoke the
\* endpoint confirmed, there is no token file and the in-memory record is
\* empty, and the next ensure_authenticated() neither returns True nor
\* refreshes: it goes to the interactive grant.
C26_RevokeClearsEverything ==
    [][/\ (Called("revoke") /\ calls'.revoke = 1 /\ faults' = {})
          => /\ ret' = "true"
             /\ tokens' = EmptyDict /\ file' = FileMissing
       /\ (EnsureEnters /\ op = "revoke" /\ ret = "true")
          => /\ pc' = "flow" /\ ret' = "none"]_vars

\* ensure_authenticated() entered the interactive grant after a revoke.
C26_Witness ==
    /\ variant = "auth" /\ op \in {"ensure", "client"} /\ ncalls = 2
    /\ sent.returned = "revoked" /\ Truthy(sent.token)
    /\ tokens = EmptyDict /\ file = FileMissing
    /\ pc = "flow_url" /\ calls.flow = 1 /\ calls.refresh = 0

\* C27: revoke_tokens() with no refresh token held returns False, calls no
\* endpoint and deletes no file.
C27_RevokeWithoutTokenIsNoOp ==
    [][Called("revoke") /\ ~Truthy(tokens.refresh_token)
        => /\ ret' = "false"
           /\ calls' = ZeroCalls
           /\ UNCHANGED <<tokens, file, sent, auth_client>>]_vars

\* revoke_tokens() returned False on a record with an access token and no
\* refresh token, and the token file is still there.
C27_Witness ==
    /\ variant = "auth" /\ op = "revoke" /\ pc = "idle"
    /\ ret = "false" /\ calls = ZeroCalls
    /\ ~Truthy(tokens.refresh_token) /\ Truthy(tokens.access_token)
    /\ file.state = "ok" /\ load_tokens(file) = tokens

\* The step in which _perform_oauth_flow is entered.
FlowStarts == variant = "auth" /\ calls'.flow = calls.flow + 1

\* C28: ensure_authenticated() goes reuse, refresh, re-acquire: it refreshes
\* only with a refresh token held and a record that was not usable at entry,
\* and it enters the interactive flow only when the record was not usable at
\* entry and the refresh token, if one is held, has been tried once and has
\* failed.
C28_ReuseRefreshReacquire ==
    [][/\ RefreshAnswered
          => /\ Truthy(tokens.refresh_token)
             /\ pc = "refresh" /\ calls.flow = 0
             /\ ~(Truthy(start.access) /\ Present(start.tokens.company_id))
       /\ FlowStarts
          => /\ pc = "flow"
             /\ ~(Truthy(start.access) /\ Present(start.tokens.company_id))
             /\ Truthy(tokens.refresh_token)
                  => (calls.refresh = 1 /\ "refresh" \in faults)
             /\ ~Truthy(tokens.refresh_token) => calls.refresh = 0]_vars

\* The three stages in one call: the record was not usable, the refresh token
\* held was tried and refused, and the interactive flow has bound its
\* listener.
C28_Witness ==
    /\ variant = "auth" /\ op = "ensure" /\ pc = "flow_url"
    /\ start.access = NoneV /\ Truthy(start.tokens.refresh_token)
    /\ calls.refresh = 1 /\ "refresh" \in faults
    /\ calls.flow = 1 /\ calls.bind = 1

\* The listener of run_interactive_oauth handles a request.
RioHandlerStep == variant = "rio" /\ hits' # hits /\ Len(hits') = Len(hits) + 1

\* The handler of run_interactive_oauth holds a grant: an error, or a code
\* with its realm id.
RioGrantRecorded ==
    /\ handler_req = NoRequest
    /\ Truthy(handler.error) \/ (Truthy(handler.code) /\ Truthy(handler.realm_id))

\* _perform_oauth_flow returns after it has consumed the callback.
FlowEnds ==
    /\ variant = "auth"
    /\ pc = "flow_exchange"
    /\ pc' \in {"idle", "build"}

\* C29: within one interactive flow the grant is written once: a request the
\* listener handles while the wait loop is polling and a callback is already
\* recorded leaves the recorded callback (auth.py) or the recorded code,
\* realm id and error (oauth_flow.py) as they are, and no grant is left when
\* the flow that consumed it has ended.
C29_GrantPopulatedOnce ==
    [][/\ (HandlerStep /\ variant = "auth" /\ pc = "flow_wait"
           /\ callback_url # NoRequest)
          => callback_url' = callback_url
       /\ (RioHandlerStep /\ rio_pc \in {"wait", "sleep"} /\ RioGrantRecorded)
          => handler' = handler
       /\ FlowEnds => callback_url' = NoRequest]_vars

\* The step in which the second caller's _perform_oauth_flow returns without
\* having bound a listener, while the first caller's flow holds its own.
SecondFlowFails ==
    /\ variant = "auth" /\ pc2 = "flow" /\ pc2' = "idle"
    /\ FlowBound /\ pc' = pc

\* C30: when two calls of ensure_authenticated() overlap, the flow whose bind
\* fails leaves the listener and the socket of the flow still waiting as they
\* are and does not touch the callback slot that flow polls.
C30_FlowStopsOnlyOwnListener ==
    [][SecondFlowFails => UNCHANGED <<serving, sock, callback_url>>]_vars

\* The part of C30 that holds: a flow whose bind fails never resets the
\* callback slot.
FailedBindKeepsCallback ==
    [][SecondFlowFails => UNCHANGED callback_url]_vars

\* A report tool has been invoked and nothing else has been called since.
ToolCalled ==
    variant = "auth" /\ report.layer # "none" /\ op \in {"tool", "generate"}

WellFormed(req) ==
    /\ req.start_date.given /\ parse_date(req.start_date.text).ok
    /\ req.tool = "profit_loss"
         => (req.end_date.given /\ parse_date(req.end_date.text).ok)

\* The step in which the guard returns to _generate_*_report without raising.
GuardPasses ==
    /\ variant = "auth" /\ report.layer = "tools"
    /\ pc = "guarded" /\ pc' # "guarded" /\ ret = "true"

\* The step in which the generator returns its processed report.
GeneratorReturns ==
    /\ variant = "auth" /\ report.layer = "tools"
    /\ pc = "generated" /\ pc' = "idle" /\ report'.data # NoneV

\* C25: a _generate_*_report function of tools.py whose guard has passed
\* (the guard was called once) goes on to call the matching generator
\* method with the parsed period or date when the request is well formed,
\* and when the generator returns, the function returns status "success"
\* with the generator's result, the generator having been called once.
C25_GuardGeneratorSuccess ==
    [][/\ (GuardPasses /\ WellFormed(report'.request))
          => /\ pc' = "generate"
             /\ report'.guards = 1 /\ report'.generated = <<>>
       /\ GeneratorReturns
          => /\ report'.status = "success"
             /\ report'.guards = 1
             /\ report'.generated =
                  <<[method |-> generator_method(report.request.tool),
                     arg |-> report_arg(report.request).arg]>>]_vars

\* The functions of server.py do call the generator on a well-formed request.
ServerToolGenerates ==
    [][(variant = "auth" /\ report.layer = "server" /\ pc = "guarded"
        /\ pc' # "guarded" /\ ret = "true" /\ WellFormed(report'.request))
        => pc' = "generate"]_vars

\* C31: a call of ensure_authenticated that returns False (the refresh, if
\* one was tried, failed and the interactive flow failed) ends with the record
\* it started with, and no step of a call that has not returned True writes
\* the token file.
C31_FalseLeavesRecordAndFile ==
    [][/\ (EnsureReturns /\ ret' = "false") => tokens' = start'.tokens
       /\ (variant = "auth" /\ op' \in {"ensure", "client"} /\ ret' # "true")
            => file' = file]_vars

\* A call found an expired record with a refresh token, the refresh was
\* refused, the listener received a code and the exchange was refused: False.
C31_Witness ==
    /\ EnsureDone /\ ret = "false"
    /\ calls.refresh = 1 /\ calls.flow = 1 /\ calls.exchange = 1
    /\ faults = {"refresh", "exchange"}
    /\ tokens = start.tokens /\ Truthy(tokens.refresh_token)
    /\ file = FileOf(tokens)

\* ensure_authenticated is entered right after a call of it returned True,
\* before the expiry the record holds has passed.
EntersAfterTrue ==
    /\ EnsureEnters /\ op \in {"ensure", "client"} /\ ret = "true"
    /\ tokens.expires_at.kind = "time" /\ now < tokens.expires_at.at

\* C32: a call of ensure_authenticated that immediately follows a call
\* which returned True, before the stored expiry passes, returns True in its
\* first step with no refresh, bind, browser open or exchange and leaves the
\* record and the file as they are.
C32_IdempotentOnSuccess ==
    [][EntersAfterTrue
        => /\ ret' = "true" /\ pc' \in {"idle", "build"}
           /\ calls' = ZeroCalls
           /\ UNCHANGED <<tokens, file>>]_vars

\* The guard of a tool of server.py returned True and the reports generator's
\* get_authenticated_client, called next, found the record usable: one call
\* of ensure_authenticated each, the second without any network call.
GuardThenGeneratorReuses ==
    [][(variant = "auth" /\ report.layer = "server" /\ pc = "generate"
        /\ report.ensured = "true" /\ ncalls' # ncalls
        /\ tokens.expires_at.kind = "time" /\ now < tokens.expires_at.at)
        => /\ ret' = "true" /\ pc' = "build" /\ calls' = ZeroCalls
           /\ UNCHANGED <<tokens, file>>]_vars

\* One request the listener handled during this call carried both values.
FromOneRequest(code, realm_id) ==
    \E i \in DOMAIN hits :
        /\ hits[i].path = "/callback"
        /\ hits[i].code = code /\ hits[i].realmId = realm_id

\* C33: in run_interactive_oauth the code and the realm id the main flow
\* reads after the wait loop, and the pair it passes to the token exchange,
\* were written by one and the same callback request, however the handler
\* thread and the polling loop interleave.
C33_CodeAndRealmFromOneRequest ==
    variant = "rio" =>
        /\ rio_pc = "exchange" => FromOneRequest(handler.code, handler.realm_id)
        /\ calls.exchange > 0 => FromOneRequest(local.code, local.realm_id)

\* Two successful callbacks arrived during one flow and the pair of the
\* second was exchanged.
C33_Witness ==
    /\ variant = "rio" /\ calls.exchange = 1
    /\ hits = <<ReqOk, ReqOk2>>
    /\ local.code = ReqOk2.code /\ local.realm_id = ReqOk2.realmId

\* The listener received the code during this call.
ReceivedInThisFlow(code) ==
    \E i \in DOMAIN hits : hits[i].path = "/callback" /\ hits[i].code = code

\* C34: the authorization code a flow exchanges was received by the listener
\* during that same flow (never one left in the callback slot or in the
\* handler by an earlier flow), and a flow exchanges at most once.
C34_CodeFromSameFlow ==
    variant \in {"auth", "rio"} =>
        /\ calls.exchange <= 1
        /\ calls.exchange > 0 => ReceivedInThisFlow(local.code)

\* A first flow exchanged the code of one callback (the record holds its
\* realm id); the record expired, and the second flow exchanged the code of
\* another callback.
C34_Witness ==
    /\ variant = "auth" /\ ncalls = 2
    /\ start.tokens.company_id = ReqOk.realmId
    /\ calls.exchange = 1 /\ hits = <<ReqOk2>>
    /\ local.code = ReqOk2.code

\* The step in which webbrowser.open is called with the authorization URL.
BrowserOpens ==
    /\ variant \in {"auth", "rio"}
    /\ calls'.browser = calls.browser + 1

\* C35: whenever a flow opens the authorization URL in the browser, its
\* callback listener is bound and serving, and it was bound in this flow.
C35_ListenerBeforeBrowser ==
    [][BrowserOpens => /\ sock /\ serving
                       /\ calls.bind = 1 /\ calls.flow = 1]_vars

\* The browser was opened and the listener has answered a redirect that
\* arrived before the flow began to wait.
C35_Witness ==
    /\ variant = "auth" /\ pc = "flow_reset"
    /\ calls.browser = 1 /\ calls.bind = 1
    /\ serving /\ sock
    /\ hits = <<ReqOk>>

\* C36: a flow whose listener could not bind its port has ended in failure
\* (False from _perform_oauth_flow, the exception out of
\* run_interactive_oauth) without opening the browser, without entering the
\* wait and without an exchange.
C36_BindFailureFailsAtOnce ==
    /\ (variant = "auth" /\ "bind" \in faults)
         => /\ pc = "idle" /\ ret = "false" /\ ~qb_client.built
            /\ calls.browser = 0 /\ calls.exchange = 0
            /\ faults \subseteq {"bind", "refresh"}
    /\ (variant = "rio" /\ "bind" \in faults)
         => /\ rio_pc = "idle" /\ rio_ret = Raise
            /\ calls.browser = 0 /\ calls.exchange = 0
            /\ faults = {"bind"}

\* ensure_authenticated found no record, another process held the port,
\* and the call returned False after the one bind attempt.
C36_Witness ==
    /\ variant = "auth" /\ op = "ensure" /\ pc = "idle"
    /\ faults = {"bind"} /\ calls.bind = 1 /\ calls.flow = 1
    /\ ret = "false" /\ ~sock /\ ~serving
    /\ calls.browser = 0

\* C37: a call of ensure_authenticated that finds a record whose expires_at
\* is absent, no string, or no parsable timestamp does not raise: it treats
\* the access token as absent and goes on to the refresh or to the
\* interactive flow; is_authenticated is False for such a record.
C37_MalformedExpiryMeansNoToken ==
    [][(EnsureEnters /\ tokens.expires_at.kind # "time")
        => /\ is_authenticated(tokens, now) = "false"
           /\ ret' # Raise
           /\ pc' \in {"refresh", "flow"}]_vars

\* For an expiry that is absent or a string fromisoformat rejects the call
\* does go on to the refresh or to the flow.
ValueErrorMeansNoToken ==
    [][(EnsureEnters /\ tokens.expires_at.kind \in {"absent", "bad_str"})
        => /\ is_authenticated(tokens, now) = "false"
           /\ ret' = "none"
           /\ pc' \in {"refresh", "flow"}]_vars

\* The step in which the qbo_connection context closes.
ConnectionCloses ==
    /\ variant \in {"conn", "svc"} /\ op = "connection"
    /\ pc = "open" /\ pc' = "idle"

\* C38: when the qbo_connection context closes, after its body returned or
\* raised, and the client's refresh token differs from the one loaded at
\* entry, the token file holds the client's refresh token afterwards
\* (unless the file system refused the write); when the token is the one
\* loaded, the file is left as it is.
C38_RotatedTokenSavedOnClose ==
    [][ConnectionCloses
        => IF auth_client.refresh_token # start.tokens.refresh_token
           THEN "save" \notin faults'
                  => /\ file'.state = "ok"
                     /\ file'.data.refresh_token = auth_client'.refresh_token
           ELSE file' = file]_vars

\* The body raised after the SDK had rotated the refresh token, and the
\* file holds the new one.
C38_Witness ==
    /\ variant \in {"conn", "svc"} /\ op = "connection" /\ pc = "idle"
    /\ ret = "body_error"
    /\ start.tokens.refresh_token = "r0" /\ auth_client.refresh_token = "r1"
    /\ file.state = "ok" /\ file.data.refresh_token = "r1"

\* The token did not change and the file, which holds more than the refresh
\* token, is as it was.
UnchangedTokenLeavesFile ==
    /\ variant \in {"conn", "svc"} /\ op = "connection" /\ pc = "idle"
    /\ ret = "closed"
    /\ auth_client.refresh_token = start.tokens.refresh_token
    /\ file.state = "ok" /\ file.data.company_id = "c0"

====
